---- MODULE Spec2Model ----
(***************************************************************************)
(* OakEvolutionLoop (src/unnamed/part_001, lines 470-1155): the            *)
(* generational loop over a population of agents.                          *)
(*                                                                         *)
(* Agents are opaque: an agent is an identity (1..MaxAgents) and the       *)
(* outcome of each asynchronous capability call made on it (it resolves,   *)
(* it throws, or it never resolves).  Fitness is Math.random-driven in the *)
(* source, so a completed evaluation yields any value of FitnessValues;    *)
(* values are integers in one fitness unit, and the failure penalty is -1. *)
(* Rates are percentages, random draws are percentages in [0,100).         *)
(* Of an EvolutionMetrics record only the fields the loop reads back       *)
(* (generation, bestFitness, convergenceRate) are kept.                    *)
(***************************************************************************)
EXTENDS Integers, Sequences, FiniteSets, TLC

(* ---------------------------- bounds ---------------------------------- *)
MaxAgents == 2
LongLimit == 6
LargePopulation == 30

(* ----------------------- program constants ---------------------------- *)
OakSteps == 8
evaluationSteps == 10
MaxBatch == 10
ConvergenceWindow == 5
MinTournament == 2
TournamentPercent == 10
Penalty == -1
NegInfinity == -1000
Null == 0
Undefined == -1

Agents == 1..MaxAgents
FitnessValues == {-1, 0, 1}
RandomDraws == {0, 99}
CallOutcomes == {"resolve", "throw", "hang"}

Min2(a, b) == IF a < b THEN a ELSE b
Max2(a, b) == IF a > b THEN a ELSE b
Abs(x) == IF x < 0 THEN 0 - x ELSE x

VARIABLES
  config,         \* this.config
  population,     \* this.population
  generation,     \* this.generation
  bestAgent,      \* this.bestAgent
  bestFitness,    \* this.bestFitness
  metrics,        \* this.metrics
  isRunning,      \* this.isRunning
  pc,             \* where run() is suspended
  newGeneration,  \* executeOakCycle's newGeneration, then run's newGeneration
  batchStart,     \* executeOakCycle's loop variable i
  batchResults,   \* settled executeAgentOakCycle promises of the current batch
  fitnessScores,  \* settled evaluateAgent promises, by slot
  evalBlocked,    \* slots whose evaluateAgent awaits a call that never resolves
  events,         \* events emitted so far by the current run call
  result,         \* the value run() resolved with
  error,          \* origin of the exception run() rejected with
  faulty,         \* agents whose every capability call throws
  initialPopulation, \* the argument the caller hands to run
  evalFailed,     \* slots whose evaluation met a throwing or timed-out call
  evalNormal,     \* slot -> the fitness a fully successful evaluation computed
  maxEvaluated,   \* the largest fitness any evaluateAgent returned in this run
  stopCalls,      \* generation in flight at each stop() call
  lastSelection,  \* what the latest selectNextGeneration did
  fresh,          \* no run call but the first has been made on this driver
  reuse,          \* the caller runs the driver a second time
  lateCalls,      \* agents with an act call outstanding that lost its race
  recordCalls,    \* whether the agent calls of the Oak cycle are recorded
  oakCalls,       \* by slot of the current batch: the calls made on agents
  evalCalls       \* by slot: the calls evaluateAgent made on the slot's agent
                  \* against the evaluation timer

vars == << config, population, generation, bestAgent, bestFitness, metrics,
           isRunning, pc, newGeneration, batchStart, batchResults,
           fitnessScores, evalBlocked, events, result, error, faulty,
           evalFailed, evalNormal, maxEvaluated, stopCalls, lastSelection,
           initialPopulation, fresh, reuse, lateCalls,
                  recordCalls, oakCalls, evalCalls >>

EmptyFn == [x \in {} |-> 0]

(* A promise's fate: fulfilled with a value, rejected, or never settled.   *)
Fulfilled(v) == [status |-> "fulfilled", value |-> v]
Rejected == [status |-> "rejected", value |-> Null]
Pending == [status |-> "pending", value |-> Null]

(* ---------------- agent capability calls (IMetaAgent) ------------------ *)
(* What a call on `agent` does, given what the environment chose for it:   *)
(* a faulty agent throws on every call, a call on undefined is a TypeError. *)
callOutcome(agent, chosen) ==
  IF agent = Undefined \/ agent = Null THEN "throw"
  ELSE IF agent \in faulty THEN "throw"
  ELSE chosen

(* --------------------------- Oak cycle --------------------------------- *)
batchSizeWholePopulation(pop) == Len(pop)

(* Math.min(10, this.population.length) *)
batchSize(pop) == Min2(MaxBatch, Len(pop))

BatchSlots(pop, start) ==
  { i \in 1..Len(pop) : i > start /\ i <= start + batchSize(pop) }

bernoulliInclusive(draw, rate) == draw <= rate

(* Math.random() < rate *)
bernoulli(draw, rate) == draw < rate

(* The 8 awaited steps in order, the first throwing one ends the try body. *)
RECURSIVE oakSteps(_, _, _)
oakSteps(agent, step, failStep) ==
  IF step > OakSteps THEN "completed"
  ELSE IF callOutcome(agent, IF step = failStep THEN "throw" ELSE "resolve") = "throw"
       THEN "thrown"
       ELSE oakSteps(agent, step + 1, failStep)

mutateAgent(agent, learn) ==
  IF callOutcome(agent, learn) = "throw"
  THEN Fulfilled(agent)      \* catch: return agent
  ELSE Fulfilled(agent)      \* return agent

candidates(pop, excludeAgent) == SelectSeq(pop, LAMBDA a : a # excludeAgent)

(* candidates[Math.floor(Math.random() * candidates.length)] *)
selectRandomAgent(pop, excludeAgent, pick) ==
  LET c == candidates(pop, excludeAgent)
  IN  IF pick + 1 \in 1..Len(c) THEN c[pick + 1] ELSE Undefined

crossoverAgentsReturnsSelected(parent1, parent2, coin, learn) ==
  LET selectedParent == IF coin THEN parent1 ELSE parent2
  IN  Fulfilled(selectedParent)

crossoverAgents(parent1, parent2, coin, learn) ==
  LET selectedParent == IF coin THEN parent1 ELSE parent2
  IN  IF callOutcome(selectedParent, learn) = "throw"
      THEN Fulfilled(parent1)          \* catch: return parent1
      ELSE Fulfilled(selectedParent)

applyEvolution(agent, pop, in) ==
  LET mutated == IF bernoulli(in.mutDraw, config.mutationRate)
                 THEN mutateAgent(agent, in.mutLearn)
                 ELSE Fulfilled(agent)
  IN  IF mutated.status # "fulfilled" THEN mutated
      ELSE IF bernoulli(in.crossDraw, config.crossoverRate) /\ Len(pop) > 1
           THEN crossoverAgents(mutated.value,
                                selectRandomAgent(pop, agent, in.pick),
                                in.coin, in.crossLearn)
           ELSE mutated

executeAgentOakCycleNoCatch(agent, pop, in) ==
  IF oakSteps(agent, 1, in.failStep) = "thrown"
  THEN Rejected
  ELSE applyEvolution(agent, pop, in)

executeAgentOakCycle(agent, pop, in) ==
  IF oakSteps(agent, 1, in.failStep) = "thrown"
  THEN Fulfilled(agent)                \* catch: return agent
  ELSE LET evolved == applyEvolution(agent, pop, in)
       IN  IF evolved.status = "rejected" THEN Fulfilled(agent) ELSE evolved

(* The calls executeAgentOakCycle makes on agents, in the order made. A    *)
(* learn entry stands for the loop over the generated experiences (one to  *)
(* five for a mutation, at least two for a crossover): it resolves when    *)
(* every learn call did and throws when one of them threw.                 *)
OakStepNames ==
  << "learnPoliciesAndValues", "generateNewFeatures", "rankFeatures",
     "createSubproblems", "learnSubproblemSolutions", "learnTransitionModels",
     "plan", "maintainMetadata" >>

Call(name, agent, outcome) == [call |-> name, on |-> agent, outcome |-> outcome]

oakStepCallsPastFailure(agent, step, failStep) ==
  [k \in 1..OakSteps |->
     Call(OakStepNames[k], agent,
          callOutcome(agent, IF k = failStep THEN "throw" ELSE "resolve"))]

RECURSIVE oakStepCalls(_, _, _)
oakStepCalls(agent, step, failStep) ==
  IF step > OakSteps THEN << >>
  ELSE LET o == callOutcome(agent, IF step = failStep THEN "throw" ELSE "resolve")
       IN  << Call(OakStepNames[step], agent, o) >> \o
           (IF o = "throw" THEN << >> ELSE oakStepCalls(agent, step + 1, failStep))

mutateAgentCalls(agent, learn) ==
  << Call("learn", agent, callOutcome(agent, learn)) >>

crossoverAgentsCalls(parent1, parent2, coin, learn) ==
  LET selectedParent == IF coin THEN parent1 ELSE parent2
  IN  << Call("learn", selectedParent, callOutcome(selectedParent, learn)) >>

applyEvolutionCalls(agent, pop, in) ==
  (IF bernoulli(in.mutDraw, config.mutationRate)
   THEN mutateAgentCalls(agent, in.mutLearn) ELSE << >>) \o
  (IF bernoulli(in.crossDraw, config.crossoverRate) /\ Len(pop) > 1
   THEN crossoverAgentsCalls(agent, selectRandomAgent(pop, agent, in.pick),
                             in.coin, in.crossLearn)
   ELSE << >>)

executeAgentOakCycleCalls(agent, pop, in) ==
  IF oakSteps(agent, 1, in.failStep) = "thrown"
  THEN oakStepCalls(agent, 1, in.failStep)
  ELSE oakStepCalls(agent, 1, in.failStep) \o applyEvolutionCalls(agent, pop, in)

(* ---------------------------- evaluation -------------------------------- *)
NoFailure == [step |-> 0, call |-> "act", how |-> "resolve"]

EvalScenarios ==
  {NoFailure} \cup [step : 0..(evaluationSteps - 1), call : {"act", "learn"},
                    how : {"throw", "hang"}]

chosenOutcome(sc, call, step) ==
  IF sc.call = call /\ sc.step = step THEN sc.how ELSE "resolve"

(* Promise.race([agent.act(state), timer rejecting after evaluationTimeout]) *)
raceActTimeout(act) ==
  IF act = "resolve" THEN "action"
  ELSE "thrown"   \* act rejected, or the timer rejected first

RECURSIVE evaluationLoop(_, _, _)
evaluationLoop(agent, sc, step) ==
  IF step >= evaluationSteps THEN "completed"
  ELSE LET action == raceActTimeout(callOutcome(agent, chosenOutcome(sc, "act", step)))
           learn == callOutcome(agent, chosenOutcome(sc, "learn", step))
       IN  IF action # "action" THEN action
           ELSE IF learn = "throw" THEN "thrown"
           ELSE IF learn = "hang" THEN "never"
           ELSE evaluationLoop(agent, sc, step + 1)

(* The calls evaluateAgent makes on the agent, in the order made. States   *)
(* are numbered: generateRandomState gives state 0 and                     *)
(* simulateEnvironmentStep gives the successor of the state it is handed.  *)
generateRandomState == 0

simulateEnvironmentStep(state) == state + 1

evaluateAgentCallsAllSteps(agent, sc, step, currentState) ==
  [i \in 1..(2 * evaluationSteps) |->
     LET k == (i - 1) \div 2
     IN  IF i % 2 = 1
         THEN [call |-> "act", on |-> agent, state |-> currentState + k,
               outcome |-> callOutcome(agent, chosenOutcome(sc, "act", k))]
         ELSE [call |-> "learn", on |-> agent, state |-> currentState + k,
               nextState |-> simulateEnvironmentStep(currentState + k),
               done |-> (k = evaluationSteps - 1),
               outcome |-> callOutcome(agent, chosenOutcome(sc, "learn", k))]]

RECURSIVE evaluateAgentCalls(_, _, _, _)
evaluateAgentCalls(agent, sc, step, currentState) ==
  IF step >= evaluationSteps THEN << >>
  ELSE LET act == callOutcome(agent, chosenOutcome(sc, "act", step))
           learn == callOutcome(agent, chosenOutcome(sc, "learn", step))
           nextState == simulateEnvironmentStep(currentState)
           actCall == [call |-> "act", on |-> agent, state |-> currentState,
                       outcome |-> act]
           learnCall == [call |-> "learn", on |-> agent, state |-> currentState,
                         nextState |-> nextState,
                         done |-> (step = evaluationSteps - 1),
                         outcome |-> learn]
       IN  IF raceActTimeout(act) # "action" THEN << actCall >>
           ELSE IF learn # "resolve" THEN << actCall, learnCall >>
           ELSE << actCall, learnCall >> \o
                evaluateAgentCalls(agent, sc, step + 1, nextState)

evaluateAgentScoresZero(agent, sc, fitness) ==
  LET body == evaluationLoop(agent, sc, 0)
  IN  IF body = "completed" THEN Fulfilled(fitness)
      ELSE IF body = "thrown" THEN Fulfilled(0)
      ELSE Pending

evaluateAgent(agent, sc, fitness) ==
  LET body == evaluationLoop(agent, sc, 0)
  IN  IF body = "completed" THEN Fulfilled(fitness)   \* baseFitness + bonuses
      ELSE IF body = "thrown" THEN Fulfilled(Penalty) \* catch: return -1
      ELSE Pending

(* Whether the scenario makes a call of the evaluation throw or time out.   *)
scenarioFails(agent, sc) ==
  \/ agent \in faulty
  \/ sc.how = "throw"
  \/ sc.how = "hang" /\ sc.call = "act"


(* The timer wins the race against an act call that stays pending:       *)
(* Promise.race rejects, the act call itself is not cancelled.             *)
actAbandoned(agent, sc) ==
  /\ sc.call = "act"
  /\ callOutcome(agent, sc.how) = "hang"

(* ----------------------- best agent and metrics ------------------------- *)
(* Math.max(...xs); -Infinity for no arguments *)
RECURSIVE maxOf(_)
maxOf(xs) == IF xs = <<>> THEN NegInfinity ELSE Max2(Head(xs), maxOf(Tail(xs)))

(* xs.indexOf(x), 1-based *)
indexOf(xs, x) == CHOOSE i \in 1..Len(xs) :
                    xs[i] = x /\ \A j \in 1..(i - 1) : xs[j] # x

updateBestAgentAlways(pop, scores, curAgent, curFitness) ==
  LET maxFitness == maxOf(scores)
  IN  [bestAgent |-> pop[indexOf(scores, maxFitness)],
       bestFitness |-> maxFitness, replaced |-> TRUE]

updateBestAgentOnTie(pop, scores, curAgent, curFitness) ==
  LET maxFitness == maxOf(scores)
  IN  IF maxFitness >= curFitness /\ scores # << >>
      THEN [bestAgent |-> pop[indexOf(scores, maxFitness)],
            bestFitness |-> maxFitness, replaced |-> TRUE]
      ELSE [bestAgent |-> curAgent, bestFitness |-> curFitness,
            replaced |-> FALSE]

updateBestAgent(pop, scores, curAgent, curFitness) ==
  LET maxFitness == maxOf(scores)
  IN  IF maxFitness > curFitness
      THEN [bestAgent |-> pop[indexOf(scores, maxFitness)],
            bestFitness |-> maxFitness, replaced |-> TRUE]
      ELSE [bestAgent |-> curAgent, bestFitness |-> curFitness,
            replaced |-> FALSE]

(* Called from calculateMetrics, before the new record is pushed. *)
calculateConvergenceRate(ms) ==
  IF Len(ms) < 2 THEN 0
  ELSE LET current == ms[Len(ms)]
           previous == ms[Len(ms) - 1]
       IN  Abs(current.bestFitness - previous.bestFitness)

calculateMetrics(scores, ms, gen) ==
  [generation |-> gen,
   bestFitness |-> maxOf(scores),
   convergenceRate |-> calculateConvergenceRate(ms)]

RECURSIVE sumRates(_)
sumRates(ms) == IF ms = <<>> THEN 0 ELSE Head(ms).convergenceRate + sumRates(Tail(ms))

(* slice(-5) *)
recentMetrics(ms) ==
  SubSeq(ms, Max2(1, Len(ms) - ConvergenceWindow + 1), Len(ms))

(* avg = sum / length < threshold, compared without division *)
hasConverged(ms) ==
  IF Len(ms) < ConvergenceWindow THEN FALSE
  ELSE sumRates(recentMetrics(ms)) <
         config.convergenceThreshold * Len(recentMetrics(ms))

(* while (this.isRunning && this.generation < this.config.generationLimit) *)
loopContinues(running, gen) == running /\ gen < config.generationLimit

(* ----------------------------- selection -------------------------------- *)
(* indices by descending fitness; the sort is stable, so equal fitness     *)
(* keeps the lower index first                                             *)
sortedIndicesTiesByHigherIndex(scores) ==
  [r \in 1..Len(scores) |->
     CHOOSE i \in 1..Len(scores) :
       Cardinality({ j \in 1..Len(scores) :
                       \/ scores[j] > scores[i]
                       \/ scores[j] = scores[i] /\ j > i }) = r - 1]

sortedIndices(scores) ==
  [r \in 1..Len(scores) |->
     CHOOSE i \in 1..Len(scores) :
       Cardinality({ j \in 1..Len(scores) :
                       \/ scores[j] > scores[i]
                       \/ scores[j] = scores[i] /\ j < i }) = r - 1]

eliteCountByPopulationSize(scores) ==
  Max2(0, Min2(Min2(config.eliteSize, config.populationSize), Len(scores)))

(* for (i = 0; i < Math.min(eliteSize, sortedIndices.length); i++), where  *)
(* sortedIndices has one entry for each entry of fitnessScores             *)
eliteCount(scores) == Max2(0, Min2(config.eliteSize, Len(scores)))

elites(pop, scores) ==
  [k \in 1..eliteCount(scores) |-> pop[sortedIndices(scores)[k]]]

tournamentSizeByPopulationSize(pop) ==
  Max2(MinTournament, (config.populationSize * TournamentPercent) \div 100)

tournamentSize(pop) ==
  Max2(MinTournament, (Len(pop) * TournamentPercent) \div 100)

(* draw: the tournamentSize random indices, 1-based; the stable descending *)
(* sort puts the first drawn index of highest fitness in front             *)
tournamentSelection(pop, scores, draw) ==
  LET best == CHOOSE k \in 1..Len(draw) :
                /\ \A j \in 1..Len(draw) : scores[draw[j]] <= scores[draw[k]]
                /\ \A j \in 1..(k - 1) : scores[draw[j]] < scores[draw[k]]
  IN  pop[draw[best]]

TournamentDraws(pop) == [1..tournamentSize(pop) -> 1..Len(pop)]

tournamentsNeeded(scores) == Max2(0, config.populationSize - eliteCount(scores))

RECURSIVE fillByTournament(_, _, _, _)
fillByTournament(next, pop, scores, draws) ==
  IF Len(next) < config.populationSize /\ draws # <<>>
  THEN fillByTournament(Append(next, tournamentSelection(pop, scores, Head(draws))),
                        pop, scores, Tail(draws))
  ELSE next

selectNextGeneration(pop, scores, draws) ==
  fillByTournament(elites(pop, scores), pop, scores, draws)


(* ------------------------------- events --------------------------------- *)
Event(type, gen) == [type |-> type, generation |-> gen]

(* What the listeners of an emitted event do: return, or throw into emit.  *)
ListenerOutcomes == {"ok", "throw"}

(* ------------------- configurations and run inputs ---------------------- *)
(* A run input: the constructor's configuration, the length of the initial *)
(* population <<1, ..., n>> handed to run, and the faulty agents.          *)
(* SizeRuns are one-generation runs over every population size, elite size *)
(* and initial length; FaultRuns one-generation runs over the faulty       *)
(* agents, with mutation and crossover switched on; PairRuns two-generation *)
(* runs of two agents; LongRuns runs of a one-agent population, long       *)
(* enough for the convergence check to apply; ReuseRuns the same with a    *)
(* threshold above every rate, on a driver whose run is called a second    *)
(* time after the first call has settled.                                  *)
SizeRuns ==
  [config : [populationSize : 1..MaxAgents, eliteSize : 0..MaxAgents,
             generationLimit : {1}, mutationRate : {0},
             crossoverRate : {0}, convergenceThreshold : {1}],
   n : 1..MaxAgents,
   faulty : {{}},
   reuse : {FALSE}]

FaultRuns ==
  { r \in [config : [populationSize : 1..MaxAgents, eliteSize : {1},
                     generationLimit : {1}, mutationRate : {50},
                     crossoverRate : {50}, convergenceThreshold : {1}],
           n : 1..MaxAgents,
           faulty : { f \in SUBSET Agents : Cardinality(f) <= 1 },
           reuse : {FALSE}] :
      r.n = r.config.populationSize }

PairRuns ==
  [config : [populationSize : {2}, eliteSize : {1},
             generationLimit : {2}, mutationRate : {50},
             crossoverRate : {50}, convergenceThreshold : {1}],
   n : {2},
   faulty : {{}, {1}, {2}},
   reuse : {FALSE}]

LongRuns ==
  [config : [populationSize : {1}, eliteSize : {1},
             generationLimit : {LongLimit}, mutationRate : {0},
             crossoverRate : {0}, convergenceThreshold : {1}],
   n : {1},
   faulty : {{}},
   reuse : {FALSE}]

ReuseRuns ==
  [config : [populationSize : {1}, eliteSize : {1},
             generationLimit : {LongLimit}, mutationRate : {0},
             crossoverRate : {0}, convergenceThreshold : {3}],
   n : {1},
   faulty : {{}},
   reuse : {TRUE}]

(* one-generation runs of a driver constructed without eliteSize *)
DefaultEliteRuns ==
  [config : [populationSize : 1..MaxAgents, generationLimit : {1},
             mutationRate : {0}, crossoverRate : {0},
             convergenceThreshold : {1}],
   n : 1..MaxAgents,
   faulty : {{}},
   reuse : {FALSE}]

RunInputs ==
  SizeRuns \cup FaultRuns \cup PairRuns \cup LongRuns \cup ReuseRuns
    \cup DefaultEliteRuns

(* The constructor's defaults, for the fields a run input may omit; rates  *)
(* are percentages. (convergenceThreshold, 0.001 by default, is given by   *)
(* every run input.)                                                       *)
DefaultConfig ==
  [populationSize |-> 50, generationLimit |-> 100, mutationRate |-> 10,
   crossoverRate |-> 70, eliteSize |-> 5]

(* this.config = { ...defaults, ...config }: no field is validated *)
constructor(partial) == partial @@ DefaultConfig

(* constructor, and the field initialisers *)
Init ==
  /\ \E input \in RunInputs :
       /\ config = constructor(input.config)
       /\ initialPopulation = [i \in 1..input.n |-> i]
       /\ faulty = input.faulty
       /\ reuse = input.reuse
  /\ lateCalls = {}
  /\ recordCalls = FALSE
  /\ oakCalls = EmptyFn
  /\ evalCalls = EmptyFn
  /\ fresh = TRUE
  /\ population = <<>>
  /\ generation = 0
  /\ bestAgent = Null
  /\ bestFitness = NegInfinity
  /\ metrics = <<>>
  /\ isRunning = FALSE
  /\ pc = "constructed"
  /\ newGeneration = <<>>
  /\ batchStart = 0
  /\ batchResults = EmptyFn
  /\ fitnessScores = EmptyFn
  /\ evalBlocked = {}
  /\ events = <<>>
  /\ result = Null
  /\ error = "none"
  /\ evalFailed = {}
  /\ evalNormal = EmptyFn
  /\ maxEvaluated = NegInfinity
  /\ stopCalls = <<>>
  /\ lastSelection = <<>>

(* ------------------------- run(): shared tails -------------------------- *)
(* catch (error) { emit('evolutionError'); throw error } finally { ... }   *)
Reject(evs, gen, cause) ==
  /\ pc' = "rejected"
  /\ events' = Append(evs, Event("evolutionError", gen))
  /\ isRunning' = FALSE
  /\ error' = cause
  /\ result' = Null

(* emit('evolutionComplete'); return this.bestAgent; finally { ... }       *)
Complete(evs, gen) ==
  \E listener \in ListenerOutcomes :
    IF listener = "throw"
    THEN Reject(Append(evs, Event("evolutionComplete", gen)), gen, "listener")
    ELSE /\ pc' = "returned"
         /\ events' = Append(evs, Event("evolutionComplete", gen))
         /\ isRunning' = FALSE
         /\ error' = "none"
         /\ result' = bestAgent

(* the while test, then either executeOakCycle starts or the loop is left  *)
Iterate(running, gen, evs) ==
  IF loopContinues(running, gen)
  THEN /\ pc' = "oakCycle"
       /\ events' = evs
       /\ isRunning' = running
       /\ error' = "none"
       /\ result' = Null
  ELSE Complete(evs, gen)

scoresSeqReversed ==
  [i \in 1..Len(newGeneration) |-> fitnessScores[Len(newGeneration) + 1 - i]]

(* await Promise.all(fitnessPromises): the results in the order of the map *)
scoresSeq == [i \in 1..Len(newGeneration) |-> fitnessScores[i]]

InFlight == {"oakCycle", "evaluate", "metrics", "select"}

(* -------------------------------- actions ------------------------------- *)
(* the argument of a run call: the initial population of the run input, or, *)
(* when the driver is run again, any one agent                             *)
RunArguments ==
  IF pc = "constructed" THEN {initialPopulation} ELSE { <<a>> : a \in Agents }

(* run(initialPopulation), up to the first await; the variables that record *)
(* what one call did (events, result, error, stopCalls, maxEvaluated,      *)
(* lastSelection) start again with each call                               *)
Run(argument, listener) ==
  /\ \/ pc = "constructed"
     \/ pc \in {"returned", "rejected"} /\ reuse /\ fresh
  /\ fresh' = (pc = "constructed")
  /\ initialPopulation' = argument
  /\ population' = argument            \* [...initialPopulation]
  /\ generation' = 0
  /\ newGeneration' = <<>>
  /\ batchStart' = 0
  /\ batchResults' = EmptyFn
  /\ fitnessScores' = EmptyFn
  /\ evalFailed' = {}
  /\ evalNormal' = EmptyFn
  /\ maxEvaluated' = NegInfinity
  /\ stopCalls' = <<>>
  /\ lastSelection' = <<>>
  /\ LET evs == << Event("evolutionStarted", 0) >>
     IN  IF listener = "throw"
         THEN \* thrown before the try block: no catch, no finally
              /\ pc' = "rejected"
              /\ events' = evs
              /\ isRunning' = TRUE
              /\ error' = "listener"
              /\ result' = Null
         ELSE Iterate(listener # "stop", 0, evs)
  /\ UNCHANGED << config, bestAgent, bestFitness, metrics, evalBlocked,
                  faulty, reuse, lateCalls,
                  recordCalls, oakCalls, evalCalls >>

(* run(initialPopulation) with an argument that is not iterable (null, a   *)
(* number): the spread [...initialPopulation] throws, after isRunning is   *)
(* set and before the try block is entered                                 *)
RunMalformed ==
  /\ \/ pc = "constructed"
     \/ pc \in {"returned", "rejected"} /\ reuse /\ fresh
  /\ fresh' = (pc = "constructed")
  /\ isRunning' = TRUE
  /\ pc' = "rejected"
  /\ error' = "argument"
  /\ result' = Null
  /\ events' = <<>>
  /\ maxEvaluated' = NegInfinity
  /\ stopCalls' = <<>>
  /\ lastSelection' = <<>>
  /\ UNCHANGED << config, population, generation, bestAgent, bestFitness,
                  metrics, newGeneration, batchStart, batchResults,
                  fitnessScores, evalBlocked, faulty, initialPopulation,
                  evalFailed, evalNormal, reuse, lateCalls,
                  recordCalls, oakCalls, evalCalls >>

NoEvolution == [mutDraw |-> 99, mutLearn |-> "resolve", crossDraw |-> 99,
                pick |-> 0, coin |-> TRUE, crossLearn |-> "resolve"]

(* which Oak step throws (0: none), and, when none does, the random draws  *)
(* of applyEvolution and what the learn calls do                           *)
OakInputs(agent) ==
  { [failStep |-> s] @@ NoEvolution : s \in 1..OakSteps } \cup
  [failStep : {0}, mutDraw : RandomDraws, mutLearn : {"resolve", "throw"},
   crossDraw : RandomDraws,
   pick : 0..Max2(0, Len(candidates(population, agent)) - 1),
   coin : BOOLEAN, crossLearn : {"resolve", "throw"}]

(* one executeAgentOakCycle(agent) promise of the current batch settles *)
ExecuteAgentOakCycle(slot) ==
  /\ pc = "oakCycle"
  /\ slot \in BatchSlots(population, batchStart) \ DOMAIN batchResults
  /\ \E in \in OakInputs(population[slot]) :
       LET r == executeAgentOakCycle(population[slot], population, in)
       IN  /\ oakCalls' =
                IF recordCalls
                THEN (slot :> executeAgentOakCycleCalls(population[slot],
                                                        population, in)) @@ oakCalls
                ELSE oakCalls
           /\ IF r.status = "fulfilled"
              THEN /\ batchResults' = (slot :> r.value) @@ batchResults
                   /\ UNCHANGED << pc, events, isRunning, error, result >>
              ELSE \* Promise.all rejects, run's catch takes over
                   /\ batchResults' = batchResults
                   /\ Reject(events, generation, "oakCycle")
  /\ UNCHANGED << config, population, generation, bestAgent, bestFitness,
                  metrics, newGeneration, batchStart, fitnessScores,
                  evalBlocked, faulty, evalFailed, evalNormal, maxEvaluated,
                  stopCalls, lastSelection, initialPopulation, fresh, reuse, lateCalls,
                  recordCalls, evalCalls >>

(* Promise.all of the batch resolves: push, next batch or evaluatePopulation *)
OakBatchDone ==
  /\ pc = "oakCycle"
  /\ DOMAIN batchResults = BatchSlots(population, batchStart)
  /\ newGeneration' = newGeneration \o
       [k \in 1..Cardinality(BatchSlots(population, batchStart)) |->
          batchResults[batchStart + k]]
  /\ batchResults' = EmptyFn
  /\ oakCalls' = EmptyFn
  /\ IF batchStart + batchSize(population) < Len(population)
     THEN /\ batchStart' = batchStart + batchSize(population)
          /\ pc' = pc
     ELSE /\ batchStart' = 0
          /\ pc' = "evaluate"
  /\ UNCHANGED << config, population, generation, bestAgent, bestFitness,
                  metrics, isRunning, fitnessScores, evalBlocked, events,
                  result, error, faulty, evalFailed, evalNormal, maxEvaluated,
                  stopCalls, lastSelection, initialPopulation, fresh, reuse, lateCalls,
                  recordCalls, evalCalls >>

(* one evaluateAgent(agent) promise runs as far as it gets *)
EvaluateAgent(slot) ==
  /\ pc = "evaluate"
  /\ slot \in (1..Len(newGeneration)) \ (DOMAIN fitnessScores \cup evalBlocked)
  /\ \E sc \in EvalScenarios :
     \E fitness \in (IF sc = NoFailure THEN FitnessValues ELSE {0}) :
       LET agent == newGeneration[slot]
           r == evaluateAgent(agent, sc, fitness)
       IN  /\ evalCalls' =
                IF recordCalls
                THEN (slot :> evaluateAgentCalls(agent, sc, 0, generateRandomState))
                       @@ evalCalls
                ELSE evalCalls
           /\ IF r.status = "fulfilled"
              THEN /\ fitnessScores' = (slot :> r.value) @@ fitnessScores
                   /\ lateCalls' = IF actAbandoned(agent, sc)
                                   THEN lateCalls \cup {agent} ELSE lateCalls
                   /\ maxEvaluated' = Max2(maxEvaluated, r.value)
                   /\ IF scenarioFails(agent, sc)
                      THEN /\ evalFailed' = evalFailed \cup {slot}
                           /\ evalNormal' = evalNormal
                      ELSE /\ evalFailed' = evalFailed
                           /\ evalNormal' = (slot :> fitness) @@ evalNormal
                   /\ UNCHANGED << pc, events, isRunning, error, result, evalBlocked >>
              ELSE IF r.status = "pending"
              THEN /\ evalBlocked' = evalBlocked \cup {slot}
                   /\ lateCalls' = lateCalls
                   /\ UNCHANGED << pc, events, isRunning, error, result,
                                   fitnessScores, maxEvaluated, evalFailed, evalNormal >>
              ELSE \* Promise.all rejects, run's catch takes over
                   /\ Reject(events, generation, "evaluation")
                   /\ lateCalls' = lateCalls
                   /\ UNCHANGED << fitnessScores, maxEvaluated, evalFailed,
                                   evalNormal, evalBlocked >>
  /\ UNCHANGED << config, population, generation, bestAgent, bestFitness,
                  metrics, newGeneration, batchStart, batchResults, faulty,
                  stopCalls, lastSelection, initialPopulation, fresh, reuse,
                  recordCalls, oakCalls >>

(* Promise.all of the evaluations resolves; updateBestAgent *)
UpdateBestAgent ==
  /\ pc = "evaluate"
  /\ DOMAIN fitnessScores = 1..Len(newGeneration)
  /\ LET u == updateBestAgent(newGeneration, scoresSeq, bestAgent, bestFitness)
         evs == Append(events, Event("newBestAgent", generation))
     IN  /\ bestAgent' = u.bestAgent
         /\ bestFitness' = u.bestFitness
         /\ IF u.replaced
            THEN \E listener \in ListenerOutcomes :
                   IF listener = "throw"
                   THEN Reject(evs, generation, "listener")
                   ELSE /\ pc' = "metrics"
                        /\ events' = evs
                        /\ UNCHANGED << isRunning, error, result >>
            ELSE /\ pc' = "metrics"
                 /\ UNCHANGED << events, isRunning, error, result >>
  /\ UNCHANGED << config, population, generation, metrics, newGeneration,
                  batchStart, batchResults, fitnessScores, evalBlocked, faulty,
                  evalFailed, evalNormal, maxEvaluated, stopCalls, lastSelection, initialPopulation, fresh, reuse, lateCalls,
                  recordCalls, oakCalls, evalCalls >>

(* calculateMetrics, push, emit('generationComplete'), hasConverged *)
RecordGeneration ==
  /\ pc = "metrics"
  /\ LET ms == Append(metrics, calculateMetrics(scoresSeq, metrics, generation))
         evs == Append(events, Event("generationComplete", generation))
     IN  /\ metrics' = ms
         /\ \E listener \in ListenerOutcomes :
              IF listener = "throw"
              THEN Reject(evs, generation, "listener")
              ELSE IF hasConverged(ms)
                   THEN Complete(evs, generation)     \* break
                   ELSE /\ pc' = "select"
                        /\ events' = evs
                        /\ UNCHANGED << isRunning, error, result >>
  /\ UNCHANGED << config, population, generation, bestAgent, bestFitness,
                  newGeneration, batchStart, batchResults, fitnessScores,
                  evalBlocked, faulty, evalFailed, evalNormal, maxEvaluated,
                  stopCalls, lastSelection, initialPopulation, fresh, reuse, lateCalls,
                  recordCalls, oakCalls, evalCalls >>

(* selectNextGeneration, this.generation++, and the next while test *)
SelectNextGeneration ==
  /\ pc = "select"
  /\ \E draws \in [1..tournamentsNeeded(scoresSeq) -> TournamentDraws(newGeneration)] :
       LET next == selectNextGeneration(newGeneration, scoresSeq, draws)
       IN  /\ population' = next
           /\ lastSelection' = << [elites |-> Len(elites(newGeneration, scoresSeq)),
                                   evaluated |-> Len(newGeneration),
                                   size |-> Len(next),
                                   pop |-> newGeneration,
                                   scores |-> scoresSeq,
                                   draws |-> draws] >>
  /\ generation' = generation + 1
  /\ newGeneration' = <<>>
  /\ batchStart' = 0
  /\ batchResults' = EmptyFn
  /\ fitnessScores' = EmptyFn
  /\ evalFailed' = {}
  /\ evalNormal' = EmptyFn
  /\ Iterate(isRunning, generation + 1, events)
  /\ UNCHANGED << config, bestAgent, bestFitness, metrics, evalBlocked, faulty,
                  maxEvaluated, stopCalls, initialPopulation, fresh, reuse, lateCalls,
                  recordCalls, oakCalls, evalCalls >>

(* stop(), called while a generation is in flight *)
Stop ==
  /\ isRunning
  /\ pc \in InFlight
  /\ isRunning' = FALSE
  /\ stopCalls' = Append(stopCalls, generation)
  /\ UNCHANGED << config, population, generation, bestAgent, bestFitness,
                  metrics, pc, newGeneration, batchStart, batchResults,
                  fitnessScores, evalBlocked, events, result, error, faulty,
                  evalFailed, evalNormal, maxEvaluated, lastSelection, initialPopulation, fresh, reuse, lateCalls,
                  recordCalls, oakCalls, evalCalls >>

(* an act call that lost its race settles at last; nobody awaits it *)
LateActSettles(agent) ==
  /\ agent \in lateCalls
  /\ lateCalls' = lateCalls \ {agent}
  /\ UNCHANGED << config, population, generation, bestAgent, bestFitness,
                  metrics, isRunning, pc, newGeneration, batchStart,
                  batchResults, fitnessScores, evalBlocked, events, result,
                  error, faulty, evalFailed, evalNormal, maxEvaluated,
                  stopCalls, lastSelection, initialPopulation, fresh, reuse,
                  recordCalls, oakCalls, evalCalls >>

Next ==
  \/ \E argument \in RunArguments :
       \E listener \in {"ok", "stop", "throw"} : Run(argument, listener)
  \/ RunMalformed
  \/ \E slot \in 1..MaxAgents : ExecuteAgentOakCycle(slot)
  \/ OakBatchDone
  \/ \E slot \in 1..MaxAgents : EvaluateAgent(slot)
  \/ UpdateBestAgent
  \/ RecordGeneration
  \/ SelectNextGeneration
  \/ Stop
  \/ \E agent \in Agents : LateActSettles(agent)

Spec == Init /\ [][Next]_vars


(* ------------- selection of a large evaluated population ---------------- *)
(* Runs of one generation, taken up at the selection step of generation 0, *)
(* where the configured population size and the length of the initial      *)
(* population are 1 or LargePopulation, at most one of them large, and all *)
(* slots but one of the next generation are elite slots.                   *)
TournamentRuns ==
  { r \in [config : [populationSize : {1, LargePopulation},
                     eliteSize : {0, LargePopulation - 1},
                     generationLimit : {1}, mutationRate : {0},
                     crossoverRate : {0}, convergenceThreshold : {1}],
           n : {1, LargePopulation}] :
      /\ r.config.eliteSize = r.config.populationSize - 1
      /\ r.config.populationSize = 1 \/ r.n = 1 }

(* the fitness the evaluation of generation 0 gave slot i *)
tournamentScores(n) == [i \in 1..n |-> (i % 3) - 1]

(* run([1, ..., n]) has evaluated generation 0, updated the best agent,    *)
(* pushed the metrics and emitted generationComplete                       *)
TournamentInit ==
  \E input \in TournamentRuns :
    LET pop == [i \in 1..input.n |-> i]
        scores == tournamentScores(input.n)
        u == updateBestAgent(pop, scores, Null, NegInfinity)
    IN  /\ config = constructor(input.config)
        /\ initialPopulation = pop
        /\ population = pop
        /\ newGeneration = pop
        /\ fitnessScores = scores
        /\ evalNormal = scores
        /\ evalFailed = {}
        /\ evalBlocked = {}
        /\ maxEvaluated = maxOf(scores)
        /\ bestAgent = u.bestAgent
        /\ bestFitness = u.bestFitness
        /\ metrics = << calculateMetrics(scores, <<>>, 0) >>
        /\ events = << Event("evolutionStarted", 0), Event("newBestAgent", 0),
                       Event("generationComplete", 0) >>
        /\ generation = 0
        /\ isRunning = TRUE
        /\ pc = "select"
        /\ batchStart = 0
        /\ batchResults = EmptyFn
        /\ result = Null
        /\ error = "none"
        /\ faulty = {}
        /\ stopCalls = <<>>
        /\ lastSelection = <<>>
        /\ fresh = TRUE
        /\ reuse = FALSE
        /\ lateCalls = {}
        /\ recordCalls = FALSE
        /\ oakCalls = EmptyFn
        /\ evalCalls = EmptyFn

TournamentSpec == TournamentInit /\ [][SelectNextGeneration]_vars

(* ------------- Oak cycle of a population of several batches ------------ *)
(* Runs taken up where run([1, ..., n]) has entered its loop and           *)
(* executeOakCycle starts on generation 0, for a population of one slot    *)
(* more than a batch, followed through the Oak-cycle stage.                *)
BatchRuns ==
  [config : [populationSize : {1}, eliteSize : {1}, generationLimit : {1},
             mutationRate : {0}, crossoverRate : {0},
             convergenceThreshold : {1}],
   n : {MaxBatch + 1}]

BatchInit ==
  \E input \in BatchRuns :
    LET pop == [i \in 1..input.n |-> i]
    IN  /\ config = constructor(input.config)
        /\ initialPopulation = pop
        /\ population = pop
        /\ newGeneration = <<>>
        /\ fitnessScores = EmptyFn
        /\ evalNormal = EmptyFn
        /\ evalFailed = {}
        /\ evalBlocked = {}
        /\ maxEvaluated = NegInfinity
        /\ bestAgent = Null
        /\ bestFitness = NegInfinity
        /\ metrics = <<>>
        /\ events = << Event("evolutionStarted", 0) >>
        /\ generation = 0
        /\ isRunning = TRUE
        /\ pc = "oakCycle"
        /\ batchStart = 0
        /\ batchResults = EmptyFn
        /\ result = Null
        /\ error = "none"
        /\ faulty = {}
        /\ stopCalls = <<>>
        /\ lastSelection = <<>>
        /\ fresh = TRUE
        /\ reuse = FALSE
        /\ lateCalls = {}
        /\ recordCalls = FALSE
        /\ oakCalls = EmptyFn
        /\ evalCalls = EmptyFn

BatchNext ==
  \/ \E slot \in 1..(MaxBatch + 1) : ExecuteAgentOakCycle(slot)
  \/ OakBatchDone

BatchSpec == BatchInit /\ [][BatchNext]_vars

(* Runs taken up where run(initialPopulation) has entered its loop and      *)
(* executeOakCycle starts on generation 0, with the calls made on agents    *)
(* recorded; the initial population may hold an agent more than once.       *)
OakCycleRuns ==
  [config : [populationSize : {MaxAgents}, eliteSize : {1}, generationLimit : {1},
             mutationRate : {0, 50}, crossoverRate : {0, 50},
             convergenceThreshold : {1}],
   pop : UNION { [1..n -> 1..MaxAgents] : n \in 1..MaxAgents },
   faulty : SUBSET (1..MaxAgents)]

OakCycleInit ==
  \E input \in OakCycleRuns :
    /\ config = constructor(input.config)
    /\ initialPopulation = input.pop
    /\ population = input.pop
    /\ newGeneration = <<>>
    /\ fitnessScores = EmptyFn
    /\ evalNormal = EmptyFn
    /\ evalFailed = {}
    /\ evalBlocked = {}
    /\ maxEvaluated = NegInfinity
    /\ bestAgent = Null
    /\ bestFitness = NegInfinity
    /\ metrics = <<>>
    /\ events = << Event("evolutionStarted", 0) >>
    /\ generation = 0
    /\ isRunning = TRUE
    /\ pc = "oakCycle"
    /\ batchStart = 0
    /\ batchResults = EmptyFn
    /\ result = Null
    /\ error = "none"
    /\ faulty = input.faulty
    /\ stopCalls = <<>>
    /\ lastSelection = <<>>
    /\ fresh = TRUE
    /\ reuse = FALSE
    /\ lateCalls = {}
    /\ recordCalls = TRUE
    /\ oakCalls = EmptyFn
    /\ evalCalls = EmptyFn

OakCycleNext ==
  \/ \E slot \in 1..MaxAgents : ExecuteAgentOakCycle(slot)
  \/ OakBatchDone

OakCycleSpec == OakCycleInit /\ [][OakCycleNext]_vars

(* Runs taken up where executeOakCycle has returned the post-cycle         *)
(* population of generation 0 and evaluatePopulation starts, with the       *)
(* calls made on agents recorded.                                           *)
EvaluationRuns ==
  [pop : UNION { [1..n -> 1..MaxAgents] : n \in 1..MaxAgents },
   faulty : SUBSET (1..MaxAgents)]

EvaluationInit ==
  \E input \in EvaluationRuns :
    /\ config = constructor([populationSize |-> MaxAgents, eliteSize |-> 1,
                             generationLimit |-> 1, mutationRate |-> 0,
                             crossoverRate |-> 0, convergenceThreshold |-> 1])
    /\ initialPopulation = input.pop
    /\ population = input.pop
    /\ newGeneration = input.pop
    /\ fitnessScores = EmptyFn
    /\ evalNormal = EmptyFn
    /\ evalFailed = {}
    /\ evalBlocked = {}
    /\ maxEvaluated = NegInfinity
    /\ bestAgent = Null
    /\ bestFitness = NegInfinity
    /\ metrics = <<>>
    /\ events = << Event("evolutionStarted", 0) >>
    /\ generation = 0
    /\ isRunning = TRUE
    /\ pc = "evaluate"
    /\ batchStart = 0
    /\ batchResults = EmptyFn
    /\ result = Null
    /\ error = "none"
    /\ faulty = input.faulty
    /\ stopCalls = <<>>
    /\ lastSelection = <<>>
    /\ fresh = TRUE
    /\ reuse = FALSE
    /\ lateCalls = {}
    /\ recordCalls = TRUE
    /\ oakCalls = EmptyFn
    /\ evalCalls = EmptyFn

EvaluationNext ==
  \/ \E slot \in 1..MaxAgents : EvaluateAgent(slot)
  \/ UpdateBestAgent
  \/ \E agent \in 1..MaxAgents : LateActSettles(agent)

EvaluationSpec == EvaluationInit /\ [][EvaluationNext]_vars

(* ------------------------------ properties ------------------------------ *)
Emitted(type) == \E i \in 1..Len(events) : events[i].type = type

Count(seq, a) == Cardinality({ i \in 1..Len(seq) : seq[i] = a })

(* the Oak cycle of the generation has produced its whole new generation,  *)
(* and this.population is still the population it started from             *)
PostCycle == pc \in {"evaluate", "metrics", "select"}

\* C1: on a freshly constructed driver the tracked best fitness never
\* decreases during a run, and when run returns it is >= the fitness score
\* computed for every agent in every generation evaluated during that run.
C1_RunningMaximum ==
  /\ [][fresh' => bestFitness' >= bestFitness]_vars
  /\ []((fresh /\ pc = "returned") => bestFitness >= maxEvaluated)

C1_Witness ==
  /\ fresh
  /\ pc = "returned"
  /\ Len(metrics) >= 2
  /\ bestFitness > metrics[Len(metrics)].bestFitness
  /\ bestFitness = maxEvaluated

\* C2: after every generation's selection step the population handed to the
\* next generation has exactly config.populationSize agents, whatever the
\* initial population's length and whatever eliteSize is.
C2_PopulationSizeExact ==
  lastSelection # <<>> => Len(population) = config.populationSize

\* C3 (as claimed): in every selection step the number of agents copied by
\* elitism equals min(eliteSize, populationSize).
C3_EliteCountByPopulationSize ==
  lastSelection # <<>> =>
    lastSelection[1].elites = Min2(config.eliteSize, config.populationSize)

\* C3 (amended): in every selection step the number of agents copied by
\* elitism equals min(eliteSize, number of agents in the evaluated population).
C3_EliteCountByEvaluated ==
  lastSelection # <<>> =>
    /\ lastSelection[1].elites = Min2(config.eliteSize, lastSelection[1].evaluated)
    /\ lastSelection[1].elites <= Len(population)

C3_Witness ==
  /\ lastSelection # <<>>
  /\ lastSelection[1].evaluated < config.eliteSize
  /\ config.eliteSize <= config.populationSize
  /\ lastSelection[1].elites = lastSelection[1].evaluated


(* the run left its loop by the break after hasConverged: evolutionComplete *)
(* directly follows the generationComplete of the same generation          *)
StoppedForConvergence ==
  \E i \in 1..(Len(events) - 1) :
    /\ events[i].type = "generationComplete"
    /\ events[i + 1] = Event("evolutionComplete", events[i].generation)

\* C4: a run stops for convergence only when at least 5 metrics records
\* exist and the mean of the last 5 convergence rates is below the
\* threshold; in particular a run never stops for convergence before 5
\* generations have been evaluated in it.
C4_NoConvergenceBeforeFiveGenerations ==
  StoppedForConvergence =>
    /\ Len(metrics) >= ConvergenceWindow
    /\ sumRates(recentMetrics(metrics)) < ConvergenceWindow * config.convergenceThreshold
    /\ generation + 1 >= ConvergenceWindow

\* C5: for every generation g >= 1 of a run the convergence rate stored in
\* generation g's record equals |best fitness of g - best fitness of g-1|;
\* for generation 0 it is 0.
C5_ConvergenceRateIsBestDelta ==
  \A k \in 1..Len(metrics) :
    metrics[k].convergenceRate =
      IF metrics[k].generation = 0 THEN 0
      ELSE Abs(metrics[k].bestFitness - metrics[k - 1].bestFitness)

\* C6: if stop() is called while generation k is in flight, that generation
\* completes (evaluation, best-agent update, metrics, generationComplete), no
\* Oak cycle of a later generation starts, and run returns the best agent
\* found through generation k.
C6_StopAtGenerationBoundary ==
  stopCalls # <<>> =>
    LET k == stopCalls[1]
    IN  /\ pc \in InFlight => generation = k
        /\ \A i \in 1..Len(events) :
             events[i].type \in {"newBestAgent", "generationComplete"}
               => events[i].generation <= k
        /\ pc = "returned" =>
             /\ \E i \in 1..Len(events) :
                  events[i] = Event("generationComplete", k)
             /\ generation \in {k, k + 1}
             /\ result = bestAgent
             /\ bestFitness = maxEvaluated

InPopulation(pop, a) == \E i \in 1..Len(pop) : pop[i] = a

\* C7: if every capability call of an agent throws, then after a full Oak
\* cycle over a population that contains it once it is in the post-cycle
\* population exactly once, at its own slot, the post-cycle population has
\* the length of the pre-cycle one, and the cycle does not abort.
C7_FaultyAgentKeepsItsSlot ==
  /\ error # "oakCycle"
  /\ PostCycle =>
       /\ Len(newGeneration) = Len(population)
       /\ \A slot \in 1..Len(population) :
            (population[slot] \in faulty /\ Count(population, population[slot]) = 1)
              => /\ newGeneration[slot] = population[slot]
                 /\ Count(newGeneration, population[slot]) = 1

C7_Witness ==
  /\ PostCycle
  /\ Len(population) = 2
  /\ \E slot \in 1..2 :
       /\ population[slot] \in faulty
       /\ Count(population, population[slot]) = 1
       /\ Count(newGeneration, population[slot]) = 1

\* C8: an evaluation never fails outward: an agent whose act times out, or
\* whose act or learn throws at some evaluation step, gets fitness exactly
\* -1, and the other agents keep the fitness their evaluation computed.
C8_FailedEvaluationScoresPenalty ==
  /\ error # "evaluation"
  /\ \A slot \in DOMAIN fitnessScores :
       /\ slot \in evalFailed => fitnessScores[slot] = Penalty
       /\ slot \in DOMAIN evalNormal => fitnessScores[slot] = evalNormal[slot]
  /\ pc \in {"metrics", "select"} =>
       DOMAIN fitnessScores = 1..Len(newGeneration)

C8_Witness ==
  /\ pc = "metrics"
  /\ \E failed \in evalFailed :
     \E other \in DOMAIN evalNormal :
       /\ fitnessScores[failed] = -1
       /\ fitnessScores[other] = 1
       /\ newGeneration[failed] \notin faulty

\* C9: every agent's evaluation settles, with a fitness or with -1, even
\* when a call made on the agent during evaluation never resolves: no
\* evaluateAgent is left waiting for a call of the agent.
C9_EveryEvaluationSettles == evalBlocked = {}

\* C10: an exception thrown by an agent's capability call (an Oak step, act
\* or learn) never propagates out of run: run is rejected, and
\* evolutionError emitted, only for an exception thrown by an event
\* listener, and a run that returns has ended with evolutionComplete.
C10_AgentFailureNeverHaltsRun ==
  /\ error \notin {"oakCycle", "evaluation"}
  /\ Emitted("evolutionError") => (pc = "rejected" /\ error = "listener")
  /\ pc = "returned" =>
       /\ events[Len(events)].type = "evolutionComplete"
       /\ error = "none"

C10_Witness ==
  /\ pc = "returned"
  /\ generation = 2
  /\ \E a \in faulty : InPopulation(initialPopulation, a)
  /\ events[Len(events)] = Event("evolutionComplete", 2)

(* slot i of the evaluated population ranks before slot j: higher fitness, *)
(* or the same fitness and a lower index                                   *)
RanksBefore(scores, i, j) ==
  \/ scores[i] > scores[j]
  \/ scores[i] = scores[j] /\ i < j

(* idx lists the k first slots of the ranking, in ranking order *)
IsTopRanking(scores, idx, k) ==
  /\ \A r \in 1..k : \A t \in 1..k : r < t => RanksBefore(scores, idx[r], idx[t])
  /\ \A r \in 1..k : \A j \in 1..Len(scores) :
       (\A t \in 1..k : idx[t] # j) => RanksBefore(scores, idx[r], j)

\* C11: the elite agents of a selection are exactly the top-eliteSize agents
\* of the evaluated population by descending fitness, ties broken by lower
\* original index, in that order, whatever the tournament draws are.
C11_ElitesAreTopByFitness ==
  lastSelection # <<>> =>
    LET sel == lastSelection[1]
        k == Max2(0, Min2(config.eliteSize, Len(sel.pop)))
    IN  /\ Len(population) >= k
        /\ \E idx \in [1..k -> 1..Len(sel.pop)] :
             /\ IsTopRanking(sel.scores, idx, k)
             /\ \A r \in 1..k : population[r] = sel.pop[idx[r]]

C11_Witness ==
  /\ lastSelection # <<>>
  /\ config.eliteSize = 1
  /\ Len(lastSelection[1].pop) = 2
  /\ lastSelection[1].pop[1] # lastSelection[1].pop[2]
  /\ lastSelection[1].scores[1] = lastSelection[1].scores[2]
  /\ population[1] = lastSelection[1].pop[1]
  /\ lastSelection[1].draws # <<>>

(* the slots after the elites of the latest selection are filled, each by a *)
(* tournament of the given size over the evaluated population, with the    *)
(* highest-fitness sampled agent                                           *)
FilledByTournaments(size) ==
  LET sel == lastSelection[1]
  IN  \A t \in 1..(Len(population) - sel.elites) :
        /\ t \in DOMAIN sel.draws
        /\ DOMAIN sel.draws[t] = 1..size
        /\ \A j \in 1..size : sel.draws[t][j] \in 1..Len(sel.pop)
        /\ \E j \in 1..size :
             /\ population[sel.elites + t] = sel.pop[sel.draws[t][j]]
             /\ \A i \in 1..size :
                  sel.scores[sel.draws[t][j]] >= sel.scores[sel.draws[t][i]]

C13_ReturnsBestOfThisCall ==
  (pc = "returned" /\ maxEvaluated > NegInfinity) =>
    /\ result = bestAgent
    /\ InPopulation(initialPopulation, result)
    /\ bestFitness = maxEvaluated

NumberOf(type) == Cardinality({ i \in 1..Len(events) : events[i].type = type })

\* C14: an exception that escapes to the run level (from a malformed initial
\* population, for example) aborts the run with exactly one evolutionError
\* event and no evolutionComplete event, and run's promise is rejected.
C14_RejectedRunEmitsOneError ==
  pc = "rejected" =>
    /\ NumberOf("evolutionError") = 1
    /\ NumberOf("evolutionComplete") = 0
    /\ ~isRunning

Terminal == {"evolutionComplete", "evolutionError"}

(* evolutionStarted is the first event of the call, and the only one of    *)
(* its type                                                                *)
StartedFirst ==
  events # <<>> =>
    (events[1].type = "evolutionStarted" /\ NumberOf("evolutionStarted") = 1)

(* one generationComplete for each evaluated generation, in increasing     *)
(* order, and a newBestAgent event only directly before the                *)
(* generationComplete of its generation (or before the evolutionError that *)
(* its own listeners caused)                                               *)
GenerationEventsInOrder ==
  /\ \A i \in 1..Len(events) : \A j \in 1..Len(events) :
       (/\ i < j
        /\ events[i].type = "generationComplete"
        /\ events[j].type = "generationComplete")
         => events[i].generation < events[j].generation
  /\ \A i \in 1..Len(events) :
       events[i].type = "newBestAgent" =>
         \/ i = Len(events)
         \/ events[i + 1] = Event("generationComplete", events[i].generation)
         \/ events[i + 1].type = "evolutionError"

(* a call that has settled has emitted exactly one terminal event, as its  *)
(* last event; a call that has not has emitted none                        *)
OneTerminalEvent ==
  IF pc \in {"returned", "rejected"}
  THEN /\ NumberOf("evolutionComplete") + NumberOf("evolutionError") = 1
       /\ events # <<>>
       /\ events[Len(events)].type \in Terminal
  ELSE NumberOf("evolutionComplete") + NumberOf("evolutionError") = 0

\* C15: in every run evolutionStarted is emitted exactly once and first;
\* each evaluated generation has exactly one generationComplete, in
\* increasing order, preceded by its newBestAgent if any; and the run ends
\* with exactly one terminal event, after which nothing is emitted.
C15_EventProtocol ==
  /\ pc # "constructed" => (events # <<>> /\ StartedFirst)
  /\ GenerationEventsInOrder
  /\ OneTerminalEvent

(* getStats().isRunning *)
getStatsIsRunning == isRunning

\* C16: isRunning is false before run is called and false again once run
\* has settled, whether it ended by convergence, generation limit, stop()
\* or an error, including an error raised before the first generation; a
\* run in flight that nobody stopped has isRunning true.
C16_IdleOnceSettled ==
  /\ pc \in {"constructed", "returned", "rejected"} => ~getStatsIsRunning
  /\ (pc \in InFlight /\ stopCalls = <<>>) => getStatsIsRunning

\* C17: every driver's configuration satisfies eliteSize <= populationSize
\* in every reachable state, for every partial configuration the
\* constructor accepts.
C17_EliteSizeWithinPopulationSize == config.eliteSize <= config.populationSize

(* the slots of the current batch whose executeAgentOakCycle has not run   *)
PendingSlots ==
  IF pc = "oakCycle"
  THEN BatchSlots(population, batchStart) \ DOMAIN batchResults
  ELSE {}

(* with these inputs applyEvolution gets to its crossover for the slot *)
CrossoverApplied(in) ==
  /\ in.failStep = 0
  /\ in.crossDraw < config.crossoverRate
  /\ Len(population) > 1

\* C18: whenever crossover is applied for an agent, the second parent is a
\* member of the current population and a different agent from the one
\* being processed, in every reachable population.
C18_SecondParentIsAnotherMember ==
  \A slot \in PendingSlots :
    \A in \in OakInputs(population[slot]) :
      CrossoverApplied(in) =>
        LET otherParent == selectRandomAgent(population, population[slot], in.pick)
        IN  /\ InPopulation(population, otherParent)
            /\ otherParent # population[slot]

(* the slots whose evaluateAgent has been started by evaluatePopulation's  *)
(* map and has not settled                                                 *)
EvaluationsInFlight ==
  IF pc = "evaluate"
  THEN (1..Len(newGeneration)) \ DOMAIN fitnessScores
  ELSE {}

(* Promise.all(batch.map(...)) starts the tasks of all slots of the batch  *)
(* together, each with a call on its agent outstanding until it settles;   *)
(* a crossover that selects the other parent calls learn on that agent     *)
\* C19: during a generation no agent has two capability calls in flight at
\* the same time: the processing of two different population slots never
\* issues calls on one agent concurrently.
C19_NoConcurrentCallsOnOneAgent ==
  /\ \A s1 \in PendingSlots : \A s2 \in PendingSlots :
       s1 # s2 => population[s1] # population[s2]
  /\ \A s1 \in EvaluationsInFlight : \A s2 \in EvaluationsInFlight :
       s1 # s2 => newGeneration[s1] # newGeneration[s2]
  /\ \A s1 \in PendingSlots : \A in \in OakInputs(population[s1]) :
       (CrossoverApplied(in) /\ ~in.coin) =>
         \A s2 \in PendingSlots \ {s1} :
           population[s2] # selectRandomAgent(population, population[s1], in.pick)

\* C20: generation g+1's Oak cycle starts only after generation g has fully
\* completed: its Oak-cycle tasks, its evaluations, including the agent
\* calls they issued, and its selection have all finished.
C20_GenerationsDoNotOverlap ==
  (fresh /\ pc = "oakCycle" /\ generation >= 1) =>
    /\ EvaluationsInFlight = {}
    /\ evalBlocked = {}
    /\ fitnessScores = EmptyFn
    /\ lastSelection # <<>>
    /\ Len(population) = lastSelection[1].size
    /\ lateCalls = {}

\* C21: during the Oak-cycle stage at most min(10, population length) slots
\* are processed concurrently, and no slot of batch k+1 begins until every
\* slot of batch k has finished its Oak steps and evolutionary operators.
C21_BatchesOfTenInSequence ==
  pc = "oakCycle" =>
    /\ Cardinality(PendingSlots) <=
         (IF Len(population) < 10 THEN Len(population) ELSE 10)
    /\ \A started \in PendingSlots \cup DOMAIN batchResults :
         \A earlier \in 1..Len(population) :
           (earlier - 1) \div 10 < (started - 1) \div 10
             => earlier \in 1..Len(newGeneration)
    /\ \A slot \in 1..Len(newGeneration) : slot \notin PendingSlots

C21_Witness ==
  /\ pc = "oakCycle"
  /\ Len(population) = MaxBatch + 1
  /\ Len(newGeneration) = MaxBatch
  /\ PendingSlots = {MaxBatch + 1}

(* every evaluation of the generation that has not settled is in flight:   *)
(* none waits for another one to finish                                    *)
AllEvaluationsStarted ==
  pc = "evaluate" =>
    \A slot \in (1..Len(newGeneration)) \ (DOMAIN fitnessScores \cup evalBlocked) :
      ENABLED EvaluateAgent(slot)

(* fitnessScores[i] is what the evaluation of the agent in slot i returned *)
ScoresAligned ==
  \A slot \in DOMAIN fitnessScores :
    /\ slot \in 1..Len(newGeneration)
    /\ slot \in DOMAIN evalNormal => fitnessScores[slot] = evalNormal[slot]
    /\ slot \in evalFailed => fitnessScores[slot] = Penalty

(* the tracked best agent changes only once every evaluation has settled,  *)
(* and then to an agent whose own slot holds the new best fitness          *)
BestTrackedAfterAllSettled ==
  (bestAgent' # bestAgent \/ bestFitness' # bestFitness) =>
    /\ pc = "evaluate"
    /\ DOMAIN fitnessScores = 1..Len(newGeneration)
    /\ \E slot \in 1..Len(newGeneration) :
         /\ bestAgent' = newGeneration[slot]
         /\ bestFitness' = fitnessScores[slot]
         /\ \A other \in 1..Len(newGeneration) :
              fitnessScores[other] <= fitnessScores[slot]

EvolutionInputs(agent) ==
  [failStep : {0}, mutDraw : RandomDraws, mutLearn : {"resolve", "throw"},
   crossDraw : RandomDraws,
   pick : 0..Max2(0, Len(candidates(population, agent)) - 1),
   coin : BOOLEAN, crossLearn : {"resolve", "throw"}]

\* C23: when one of an agent's 8 Oak steps throws, the agent is passed
\* through, unmodified, to the evolutionary-operator stage: the slot's
\* result is what that generation's mutation and crossover trials make of
\* the agent, not the agent bypassing them.
C23_FailedAgentStillEvolves ==
  \A slot \in PendingSlots :
    \A step \in 1..OakSteps :
      \A in \in EvolutionInputs(population[slot]) :
        executeAgentOakCycle(population[slot], population,
                             [in EXCEPT !.failStep = step])
          = applyEvolution(population[slot], population, in)

(* a learn call threw in an operator applied to the slot *)
LearnThrew(slot) ==
  \E i \in 1..Len(oakCalls[slot]) :
    oakCalls[slot][i].call = "learn" /\ oakCalls[slot][i].outcome = "throw"

(* the last operator applied to the slot is one whose learn call threw *)
LastOperatorThrew(slot) ==
  /\ oakCalls[slot] # << >>
  /\ oakCalls[slot][Len(oakCalls[slot])].call = "learn"
  /\ oakCalls[slot][Len(oakCalls[slot])].outcome = "throw"

\* C24 (as stated): if a learn call throws during mutation or crossover, the
\* exception is caught, the slot's result is the agent that entered the
\* operator, never the other crossover parent, and the generation continues.
C24_LearnFailureKeepsSlotAgent ==
  /\ error = "none"
  /\ \A slot \in DOMAIN oakCalls :
       /\ slot \in DOMAIN batchResults
       /\ LearnThrew(slot) => batchResults[slot] = population[slot]

\* C24 (amended): if a learn call throws during mutation or crossover, the
\* exception is caught and the operator returns the agent that entered it,
\* never the other crossover parent; the slot's result is that agent when
\* the failed operator is the last one applied to the slot (a crossover
\* that follows a failed mutation still decides the slot), and the
\* generation continues.
C24_FailedOperatorReturnsItsInput ==
  /\ error = "none"
  /\ \A slot \in DOMAIN oakCalls :
       /\ slot \in DOMAIN batchResults
       /\ LastOperatorThrew(slot) => batchResults[slot] = population[slot]

C24_Witness ==
  \E slot \in DOMAIN oakCalls :
    /\ LastOperatorThrew(slot)
    /\ oakCalls[slot][Len(oakCalls[slot])].on # population[slot]
    /\ oakCalls[slot][Len(oakCalls[slot])].on # Undefined
    /\ oakCalls[slot][Len(oakCalls[slot]) - 1].call = "learn"
    /\ oakCalls[slot][Len(oakCalls[slot]) - 1].outcome = "throw"
    /\ batchResults[slot] = population[slot]

(* the calls on the slot's agent follow the try body of the Oak cycle *)
OakStepsInOrder(slot) ==
  LET log == oakCalls[slot]
  IN  \A i \in 1..Len(log) :
        /\ i <= OakSteps =>
             /\ log[i].call = OakStepNames[i]
             /\ log[i].on = population[slot]
             /\ log[i].outcome = "throw" => i = Len(log)
        /\ i > OakSteps => log[i].call = "learn"

\* C25: within one generation, for each population slot the 8 Oak steps are
\* invoked on the slot's agent at most once each, in the fixed order
\* learnPoliciesAndValues, generateNewFeatures, rankFeatures,
\* createSubproblems, learnSubproblemSolutions, learnTransitionModels, plan,
\* maintainMetadata; step k+1 is invoked only after step k succeeded, a
\* failed step is never retried, and mutation/crossover for the slot begin
\* only after step 8 completed.
C25_OakStepsOnceInOrder ==
  \A slot \in DOMAIN oakCalls :
    /\ Len(oakCalls[slot]) >= 1
    /\ OakStepsInOrder(slot)

C25_Witness ==
  /\ DOMAIN oakCalls = {1, 2}
  /\ Len(oakCalls[1]) = 7
  /\ oakCalls[1][7] = Call("plan", population[1], "throw")
  /\ Len(oakCalls[2]) = OakSteps + 2
  /\ oakCalls[2][OakSteps] = Call("maintainMetadata", population[2], "resolve")
  /\ oakCalls[2][OakSteps + 1].call = "learn"

(* run's step from the settled evaluations through updateBestAgent *)
BestAgentUpdated ==
  /\ pc = "evaluate"
  /\ pc' # "evaluate"
  /\ DOMAIN fitnessScores = 1..Len(newGeneration)
  /\ fitnessScores' = fitnessScores

(* slot i holds the generation's maximum fitness and no earlier slot does *)
FirstMaximum(i) ==
  /\ \A j \in DOMAIN fitnessScores : fitnessScores[j] <= fitnessScores[i]
  /\ \A j \in 1..(i - 1) : fitnessScores[j] < fitnessScores[i]

NewBestAgentEmitted ==
  /\ Len(events') > Len(events)
  /\ events'[Len(events) + 1] = Event("newBestAgent", generation)

BestReplacedIffStrictlyBetter ==
  BestAgentUpdated =>
    IF \E i \in DOMAIN fitnessScores : fitnessScores[i] > bestFitness
    THEN /\ NewBestAgentEmitted
         /\ \E i \in DOMAIN fitnessScores :
              /\ FirstMaximum(i)
              /\ bestAgent' = newGeneration[i]
              /\ bestFitness' = fitnessScores[i]
    ELSE /\ ~NewBestAgentEmitted
         /\ bestAgent' = bestAgent
         /\ bestFitness' = bestFitness

EvaluationSucceeded(slot) == slot \in DOMAIN evalNormal

(* act k, then learn k, for k = 1..10, each act on the state the previous  *)
(* step produced, the terminal flag set on the 10th learn only             *)
TenAlternatingSteps(slot) ==
  LET log == evalCalls[slot]
  IN  /\ Len(log) = 20
      /\ \A k \in 1..10 :
           /\ log[2 * k - 1].call = "act"
           /\ log[2 * k].call = "learn"
           /\ log[2 * k].state = log[2 * k - 1].state
           /\ log[2 * k].done = (k = 10)
           /\ k > 1 => log[2 * k - 1].state = log[2 * k - 2].nextState
      /\ \A i \in 1..20 : log[i].on = newGeneration[slot]
                          /\ log[i].outcome = "resolve"

(* a call that failed or timed out is the last call of the evaluation *)
NoCallAfterFailure(slot) ==
  \A i \in 1..Len(evalCalls[slot]) :
    evalCalls[slot][i].outcome # "resolve" => i = Len(evalCalls[slot])

\* C27: in a successful evaluation the agent receives exactly 10 act calls
\* and 10 learn calls, strictly alternating (act k, then learn k, then act
\* k+1), each act on the state produced by the previous step, with the
\* experience's terminal flag true only on the 10th; after the first
\* failing or timed-out step the evaluation issues no further call to the
\* agent.
C27_TenAlternatingSteps ==
  \A slot \in DOMAIN evalCalls :
    /\ EvaluationSucceeded(slot) => TenAlternatingSteps(slot)
    /\ ~EvaluationSucceeded(slot) =>
         /\ Len(evalCalls[slot]) \in 1..20
         /\ evalCalls[slot][Len(evalCalls[slot])].outcome # "resolve"
    /\ NoCallAfterFailure(slot)

C27_Witness ==
  /\ DOMAIN evalCalls = {1, 2}
  /\ EvaluationSucceeded(1)
  /\ Len(evalCalls[1]) = 20
  /\ evalCalls[1][20].done
  /\ 2 \in evalFailed
  /\ Len(evalCalls[2]) = 5
  /\ evalCalls[2][5].call = "act"
  /\ evalCalls[2][5].outcome = "hang"

(* an agent handed to run in its initial population *)
InitialAgent(a) == InPopulation(initialPopulation, a)

\* C28: every element of every generation's population, the tracked best
\* agent and the value returned by run are agents of the initial
\* population: the loop never creates an agent and never places undefined
\* or null in a population, and the post-cycle population has the same
\* length as the pre-cycle population.
C28_OnlyInitialAgents ==
  /\ \A i \in 1..Len(population) : InitialAgent(population[i])
  /\ \A i \in 1..Len(newGeneration) : InitialAgent(newGeneration[i])
  /\ bestAgent # Null => InitialAgent(bestAgent)
  /\ pc = "returned" => InitialAgent(result)
  /\ PostCycle => Len(newGeneration) = Len(population)

\* C29: when a run on a fresh driver completes, the generations value
\* reported in evolutionComplete (and getStats().generation) equals the
\* number of generations evaluated in the run, i.e. the number of metrics
\* records appended, whether the run ended by generation limit, by stop()
\* or by convergence.
C29_GenerationsCountsEvaluated ==
  (fresh /\ pc = "returned") =>
    /\ events[Len(events)] = Event("evolutionComplete", Len(metrics))
    /\ generation = Len(metrics)

NoLearnCall(slot) ==
  \A i \in 1..Len(oakCalls[slot]) : oakCalls[slot][i].call # "learn"

\* C30: with mutationRate = 0 and crossoverRate = 0 the post-cycle
\* population equals the pre-cycle population slot for slot (same agents,
\* same order) and no learn call is issued on any agent during the
\* Oak-cycle stage, whether or not Oak steps fail.
C30_ZeroRatesLeavePopulation ==
  (config.mutationRate = 0 /\ config.crossoverRate = 0) =>
    /\ \A slot \in DOMAIN oakCalls :
         /\ NoLearnCall(slot)
         /\ batchResults[slot] = population[slot]
    /\ \A slot \in 1..Len(newGeneration) : newGeneration[slot] = population[slot]
    /\ pc = "evaluate" => newGeneration = population

C30_Witness ==
  /\ config.mutationRate = 0
  /\ config.crossoverRate = 0
  /\ DOMAIN oakCalls = {1, 2}
  /\ Len(oakCalls[1]) = OakSteps
  /\ oakCalls[1][OakSteps].outcome = "resolve"
  /\ Len(oakCalls[2]) = 3
  /\ oakCalls[2][3].outcome = "throw"
  /\ population[1] # population[2]
  /\ batchResults[1] = population[1]
  /\ batchResults[2] = population[2]

====
